---------------------------- MODULE Spec2Model ----------------------------
(***************************************************************************)
(* Coin ledger, task lifecycle and withdrawal settlement of the microtask  *)
(* marketplace server (src/Server.js).                                     *)
(*                                                                         *)
(* Every Express route handler is an async function: it runs atomically    *)
(* up to its next `await` of a MongoDB call, so each collection call       *)
(* (findOne / insertOne / updateOne / deleteOne) is one step of the model  *)
(* and steps of different in-flight requests interleave freely.  A         *)
(* handler's first step also receives the request (the synchronous         *)
(* validation before the first await has no effect on the store).          *)
(***************************************************************************)
EXTENDS Integers, Sequences, FiniteSets

VARIABLES
  users,        \* usersCollection: sequence of documents, natural order
  tasks,        \* tasksCollection: function from task _id to document
  taskSeq,      \* number of task documents ever inserted (fresh _id source)
  withdrawals,  \* WithdrawalsCollection: sequence of documents, index = _id
  payments,     \* PaymentsCollection: sequence of documents
  pc,           \* per in-flight request slot: position in its handler
  req,          \* per slot: the request being served
  loc,          \* per slot: the handler's local variables across awaits
  out,          \* the response the last step sent, if it sent one
  approvedCredit, \* history: coins credited to each user _id by approvals
  debitsFor     \* history: number of debits made for each withdrawal _id

vars == <<users, tasks, taskSeq, withdrawals, payments, pc, req, loc, out,
          approvedCredit, debitsFor>>

dbvars == <<users, tasks, taskSeq, withdrawals, payments, approvedCredit>>

(***************************************************************************)
(* Bounds of the model: submissions per task, withdrawal requests,         *)
(* payment documents, the value up to which rejections may raise a task's  *)
(* requiredWorkers, and registered accounts.                               *)
(***************************************************************************)
MaxSubs == 2
MaxWithdrawals == 1
MaxPayments == 2
MaxRequired == 2
MaxUsers == 2

Handlers == {"h1", "h2"}

\* Request payloads the clients send.
RequiredWorkersInputs == {1, 2}
PayableAmounts == {10}
\* coin deductions: <<userId, totalCost>>
Deductions == {<<"f1", 30>>, <<"f2", 10>>}
WithdrawalCoins == {10, 20}
\* status field of a withdrawal request body: absent (""), or any string
\* the client chooses to send
BodyStatuses == {"", "paid", "void"}
\* completionDate arrives in the JSON body either as an ISO-8601 string or
\* as a number of epoch milliseconds (here: one that lies after every
\* `new Date()` of the run).
CompletionDates == {"iso", "ms_future"}

NoReq == [op |-> "none"]
NoLoc == [op |-> "none"]
NoOut == [req |-> NoReq, status |-> 0, loc |-> NoLoc]

(***************************************************************************)
(* Registration seeds (POST /api/register).                                *)
(***************************************************************************)
WorkerSeed == 10
BuyerSeed == 50

\* (variant: every role is seeded like a worker)
SeedCoinsFlat(role) == WorkerSeed

SeedCoins(role) ==
  IF role = "worker" THEN WorkerSeed
  ELSE IF role = "buyer" THEN BuyerSeed
  ELSE 0

NewUser(n, role) ==
  [_id |-> "o" \o n, uid |-> "f" \o n, email |-> "e" \o n, role |-> role,
   coins |-> SeedCoins(role)]

(***************************************************************************)
(* Collection helpers: MongoDB findOne / updateOne act on the first        *)
(* document, in natural order, that matches the filter.                    *)
(***************************************************************************)
Matching(us, field, val) == {i \in 1..Len(us) : us[i][field] = val}

Min(S) == CHOOSE x \in S : \A y \in S : x <= y

\* index of the document findOne({field: val}) returns, 0 for null
FindUser(us, field, val) ==
  IF Matching(us, field, val) = {} THEN 0 ELSE Min(Matching(us, field, val))

\* updateOne({field: val}, {$inc: {coins: d}})
IncCoins(us, field, val, d) ==
  IF FindUser(us, field, val) = 0 THEN us
  ELSE [us EXCEPT ![FindUser(us, field, val)].coins = @ + d]

\* new ObjectId(s) throws unless s is a well-formed ObjectId string; a
\* Firebase uid ("f..") is not one.
ObjectIdStrings == {"o1", "o2", "o3", "o4"}
IsObjectId(s) == s \in ObjectIdStrings

Emails == {"e2", "e3"}
WorkerIds == {"o2", "o3"}
\* userId a client stores with a task: the buyer's Firebase uid (as the
\* coin-deduction route expects) or the buyer's document _id (as the task
\* deletion route expects).
TaskUserIds == {"f1", "o1"}

\* who sends a task deletion: the buyer or a worker
Actors == {"f1", "f2"}
\* the buyer alone
Buyers == {"f1"}

\* _id values of task documents; the ledger rules are per task
TaskIds == {1}

Idle(h) == pc[h] = "idle"

\* The handler of slot h, serving request r with locals l, answers with
\* HTTP status s and ends.
Respond(h, r, s, l) ==
  /\ pc' = [pc EXCEPT ![h] = "idle"]
  /\ req' = [req EXCEPT ![h] = NoReq]
  /\ loc' = [loc EXCEPT ![h] = NoLoc]
  /\ out' = [req |-> r, status |-> s, loc |-> l]

\* The handler of slot h, serving request r, suspends at its next await, at
\* position p with locals l.
Await(h, r, p, l) ==
  /\ pc' = [pc EXCEPT ![h] = p]
  /\ req' = [req EXCEPT ![h] = r]
  /\ loc' = [loc EXCEPT ![h] = l]
  /\ out' = NoOut

TypeOK ==
  /\ taskSeq \in 0..Cardinality(TaskIds)
  /\ DOMAIN tasks \subseteq TaskIds
  /\ out.status \in {0, 200, 201, 400, 404, 500}

Init ==
  /\ users = <<NewUser("1", "buyer"), NewUser("2", "worker"),
               NewUser("3", "worker")>>
  /\ tasks = <<>>
  /\ taskSeq = 0
  /\ withdrawals = <<>>
  /\ payments = <<>>
  /\ pc = [h \in Handlers |-> "idle"]
  /\ req = [h \in Handlers |-> NoReq]
  /\ loc = [h \in Handlers |-> NoLoc]
  /\ out = NoOut
  /\ approvedCredit = [o \in ObjectIdStrings |-> 0]
  /\ debitsFor = [w \in 1..MaxWithdrawals |-> 0]

\* Request bodies and parameters (req.body, req.params).
CreateTaskReq(requiredWorkers, payableAmount, completionDate, userId) ==
  [op |-> "createTask", requiredWorkers |-> requiredWorkers,
   payableAmount |-> payableAmount, completionDate |-> completionDate,
   userId |-> userId]

DeductReq(userId, totalCost) ==
  [op |-> "deductCoins", userId |-> userId, totalCost |-> totalCost]

ReviewReq(op, taskId, submissionId) ==
  [op |-> op, taskId |-> taskId, submissionId |-> submissionId]

\* actor is the account (by Firebase uid) that sends the request; the
\* route takes no credential and reads nothing that identifies the sender
DeleteReq(actor, taskId) ==
  [op |-> "deleteTask", actor |-> actor, taskId |-> taskId]

(***************************************************************************)
(* POST /api/tasks                                                         *)
(***************************************************************************)
Falsy(x) == x = 0

InsertTask(ts, id, doc) ==
  [i \in DOMAIN ts \cup {id} |-> IF i = id THEN doc ELSE ts[i]]

\* The texts of a posted task are the same in every body sent ("a").
\* originalRequired is a history field: the requiredWorkers the task was
\* posted with (the stored document keeps only the current value)
CreateTask(h, requiredWorkers, payableAmount, completionDate, userId) ==
  /\ Idle(h)
  /\ IF Falsy(requiredWorkers) \/ Falsy(payableAmount)
     THEN /\ Respond(h, CreateTaskReq(requiredWorkers, payableAmount, completionDate, userId), 400, NoLoc)
          /\ UNCHANGED <<dbvars, debitsFor>>
     ELSE /\ taskSeq < Cardinality(TaskIds)
          /\ taskSeq' = taskSeq + 1
          /\ tasks' = InsertTask(tasks, taskSeq + 1,
                        [requiredWorkers |-> requiredWorkers,
                         payableAmount |-> payableAmount,
                         completionDate |-> completionDate,
                         userId |-> userId,
                         submissions |-> <<>>,
                         taskTitle |-> "a",
                         taskDetail |-> "a",
                         submissionInfo |-> "a",
                         originalRequired |-> requiredWorkers])
          /\ Respond(h, CreateTaskReq(requiredWorkers, payableAmount, completionDate, userId), 200, NoLoc)
          /\ UNCHANGED <<users, withdrawals, payments, approvedCredit, debitsFor>>

(***************************************************************************)
(* PATCH /api/users/deduct-coins                                           *)
(***************************************************************************)
DeductFind(h, userId, totalCost) ==
  /\ Idle(h)
  /\ LET user == FindUser(users, "uid", userId) IN
       IF user = 0 THEN Respond(h, DeductReq(userId, totalCost), 404, NoLoc)
       ELSE IF users[user].coins < totalCost THEN Respond(h, DeductReq(userId, totalCost), 400, NoLoc)
       ELSE Await(h, DeductReq(userId, totalCost), "deduct_update", [op |-> "deductCoins",
                                        coins |-> users[user].coins])
  /\ UNCHANGED <<dbvars, debitsFor>>

DeductUpdate(h) ==
  /\ pc[h] = "deduct_update"
  /\ users' = IncCoins(users, "uid", req[h].userId, -req[h].totalCost)
  /\ Respond(h, req[h], IF users' = users THEN 500 ELSE 200, loc[h])
  /\ UNCHANGED <<tasks, taskSeq, withdrawals, payments, approvedCredit,
                 debitsFor>>

(***************************************************************************)
(* The coin-deduction route on its own, with bodies that carry any number  *)
(* in totalCost.  A request is sent while no balance is above the buyer's  *)
(* seed, which keeps the balances of a run within a finite range.          *)
(***************************************************************************)
DebitInputs ==
  {<<"f1", 30>>, <<"f2", 10>>, <<"f2", 20>>, <<"f2", 0>>, <<"f2", -10>>}

Deduct(h, userId, totalCost) ==
  /\ \A i \in 1..Len(users) : users[i].coins <= BuyerSeed
  /\ DeductFind(h, userId, totalCost)

NextLedger ==
  \/ \E h \in Handlers, d \in DebitInputs : Deduct(h, d[1], d[2])
  \/ \E h \in Handlers : DeductUpdate(h)

SpecLedger == Init /\ [][NextLedger]_vars

(***************************************************************************)
(* Submission of work.  No route of Server.js pushes to task.submissions;  *)
(* the documents the review routes act on are created as the design        *)
(* describes: a pending submission by a worker without a live submission   *)
(* on an open task.                                                        *)
(***************************************************************************)
SubmitWork(taskId, workerId) ==
  /\ taskId \in DOMAIN tasks
  /\ tasks[taskId].requiredWorkers > 0
  /\ \A i \in 1..Len(tasks[taskId].submissions) :
        tasks[taskId].submissions[i].workerId = workerId
          => tasks[taskId].submissions[i].status = "rejected"
  /\ tasks' = [tasks EXCEPT ![taskId].submissions =
                 Append(@, [workerId |-> workerId, status |-> "pending"])]
  /\ out' = NoOut
  /\ UNCHANGED <<users, taskSeq, withdrawals, payments, approvedCredit,
                 pc, req, loc, debitsFor>>

Submit(taskId, workerId) ==
  /\ taskId \in DOMAIN tasks
  /\ Len(tasks[taskId].submissions) < MaxSubs
  /\ SubmitWork(taskId, workerId)

(***************************************************************************)
(* PATCH /api/tasks/approve/:taskId/:submissionId                          *)
(***************************************************************************)
\* updateOne({_id, 'submissions._id'}, {$set: {'submissions.$.status': st}}):
\* the filter matches
SubmissionMatched(ts, taskId, submissionId) ==
  /\ taskId \in DOMAIN ts
  /\ submissionId \in 1..Len(ts[taskId].submissions)

\* (variant: the handler tests matchedCount, which ignores the stored value)
SubmissionModifiedAsMatched(ts, taskId, submissionId, st) ==
  SubmissionMatched(ts, taskId, submissionId)

\* modifiedCount: a $set of the value already stored modifies nothing
SubmissionModified(ts, taskId, submissionId, st) ==
  /\ SubmissionMatched(ts, taskId, submissionId)
  /\ ts[taskId].submissions[submissionId].status # st

SetSubmissionStatus(ts, taskId, submissionId, st) ==
  IF SubmissionMatched(ts, taskId, submissionId)
  THEN [ts EXCEPT ![taskId].submissions[submissionId].status = st]
  ELSE ts

ApproveUpdate(h, taskId, submissionId) ==
  /\ Idle(h)
  /\ tasks' = SetSubmissionStatus(tasks, taskId, submissionId, "approved")
  /\ IF SubmissionModified(tasks, taskId, submissionId, "approved")
     THEN Await(h, ReviewReq("approve", taskId, submissionId), "approve_find", NoLoc)
     ELSE Respond(h, ReviewReq("approve", taskId, submissionId), 404, NoLoc)
  /\ UNCHANGED <<users, taskSeq, withdrawals, payments, approvedCredit,
                 debitsFor>>

ApproveFind(h) ==
  /\ pc[h] = "approve_find"
  /\ IF req[h].taskId \notin DOMAIN tasks
     THEN Respond(h, req[h], 500, NoLoc)          \* task is null: TypeError, caught
     ELSE LET task == tasks[req[h].taskId]
              workerId == task.submissions[req[h].submissionId].workerId
          IN IF ~IsObjectId(workerId)
             THEN Respond(h, req[h], 500, NoLoc)  \* new ObjectId throws, caught
             ELSE Await(h, req[h], "approve_credit",
                        [op |-> "approve", workerId |-> workerId,
                         payableAmount |-> task.payableAmount])
  /\ UNCHANGED <<dbvars, debitsFor>>

ApproveCredit(h) ==
  /\ pc[h] = "approve_credit"
  /\ users' = IncCoins(users, "_id", loc[h].workerId, loc[h].payableAmount)
  /\ approvedCredit' =
       IF FindUser(users, "_id", loc[h].workerId) = 0 THEN approvedCredit
       ELSE [approvedCredit EXCEPT ![loc[h].workerId] =
               @ + loc[h].payableAmount]
  /\ Respond(h, req[h], 200, loc[h])
  /\ UNCHANGED <<tasks, taskSeq, withdrawals, payments, debitsFor>>

(***************************************************************************)
(* PATCH /api/tasks/reject/:taskId/:submissionId                           *)
(***************************************************************************)
RejectUpdate(h, taskId, submissionId) ==
  /\ Idle(h)
  /\ tasks' = SetSubmissionStatus(tasks, taskId, submissionId, "rejected")
  /\ IF SubmissionModified(tasks, taskId, submissionId, "rejected")
     THEN Await(h, ReviewReq("reject", taskId, submissionId), "reject_inc", NoLoc)
     ELSE Respond(h, ReviewReq("reject", taskId, submissionId), 404, NoLoc)
  /\ UNCHANGED <<users, taskSeq, withdrawals, payments, approvedCredit,
                 debitsFor>>

\* a rejection request, while the slot counter is within the model's bound
Reject(h, taskId, submissionId) ==
  /\ taskId \in DOMAIN tasks => tasks[taskId].requiredWorkers < MaxRequired
  /\ RejectUpdate(h, taskId, submissionId)

\* (variant: the update sets the counter without adding to it)
KeepRequiredWorkers(ts, taskId) == ts

IncRequiredWorkers(ts, taskId) ==
  IF taskId \in DOMAIN ts
  THEN [ts EXCEPT ![taskId].requiredWorkers = @ + 1]
  ELSE ts

\* findOne (its result is not used), then updateOne $inc requiredWorkers
RejectInc(h) ==
  /\ pc[h] = "reject_inc"
  /\ tasks' = IncRequiredWorkers(tasks, req[h].taskId)
  /\ Respond(h, req[h], 200, NoLoc)
  /\ UNCHANGED <<users, taskSeq, withdrawals, payments, approvedCredit,
                 debitsFor>>

(***************************************************************************)
(* DELETE /api/tasks/:taskId                                               *)
(***************************************************************************)
\* task.completionDate > new Date(): both sides are converted to numbers;
\* an ISO date string converts to NaN and compares false.
AfterNow(completionDate) == completionDate = "ms_future"

RefillAmount(task) == task.requiredWorkers * task.payableAmount

DeleteFind(h, actor, taskId) ==
  /\ Idle(h)
  /\ IF taskId \notin DOMAIN tasks
     THEN Respond(h, DeleteReq(actor, taskId), 404, NoLoc)
     ELSE LET task == tasks[taskId]
              l == [op |-> "deleteTask",
                    requiredWorkers |-> task.requiredWorkers,
                    payableAmount |-> task.payableAmount,
                    userId |-> task.userId,
                    refillAmount |-> RefillAmount(task),
                    refunded |-> 0]
          IN IF AfterNow(task.completionDate)
             THEN IF IsObjectId(task.userId)
                  THEN Await(h, DeleteReq(actor, taskId), "delete_user", l)
                  ELSE Respond(h, DeleteReq(actor, taskId), 500, l)   \* new ObjectId throws, caught
             ELSE Await(h, DeleteReq(actor, taskId), "delete_delete", l)
  /\ UNCHANGED <<dbvars, debitsFor>>

DeleteUserFind(h) ==
  /\ pc[h] = "delete_user"
  /\ IF FindUser(users, "_id", loc[h].userId) # 0
     THEN Await(h, req[h], "delete_refund", loc[h])
     ELSE Await(h, req[h], "delete_delete", loc[h])
  /\ UNCHANGED <<dbvars, debitsFor>>

DeleteRefund(h) ==
  /\ pc[h] = "delete_refund"
  /\ users' = IncCoins(users, "_id", loc[h].userId, loc[h].refillAmount)
  /\ Await(h, req[h], "delete_delete",
           [loc[h] EXCEPT !.refunded = IF users' = users THEN 0
                                       ELSE loc[h].refillAmount])
  /\ UNCHANGED <<tasks, taskSeq, withdrawals, payments, approvedCredit,
                 debitsFor>>

RemoveTask(ts, taskId) == [i \in DOMAIN ts \ {taskId} |-> ts[i]]

DeleteDelete(h) ==
  /\ pc[h] = "delete_delete"
  /\ tasks' = RemoveTask(tasks, req[h].taskId)
  /\ Respond(h, req[h], 200, loc[h])
  /\ UNCHANGED <<users, taskSeq, withdrawals, payments, approvedCredit,
                 debitsFor>>

NextTasks ==
  \/ \E h \in Handlers, rw \in RequiredWorkersInputs, pa \in PayableAmounts,
        cd \in CompletionDates, u \in TaskUserIds :
          CreateTask(h, rw, pa, cd, u)
  \/ \E t \in TaskIds, w \in WorkerIds : Submit(t, w)
  \/ \E h \in Handlers, t \in TaskIds, s \in 1..MaxSubs : ApproveUpdate(h, t, s)
  \/ \E h \in Handlers : ApproveFind(h)
  \/ \E h \in Handlers : ApproveCredit(h)
  \/ \E h \in Handlers, t \in TaskIds, s \in 1..MaxSubs : Reject(h, t, s)
  \/ \E h \in Handlers : RejectInc(h)
  \/ \E h \in Handlers, a \in Buyers, t \in TaskIds : DeleteFind(h, a, t)
  \/ \E h \in Handlers : DeleteUserFind(h)
  \/ \E h \in Handlers : DeleteRefund(h)
  \/ \E h \in Handlers : DeleteDelete(h)

SpecTasks == Init /\ [][NextTasks]_vars

(***************************************************************************)
(* Posting and deleting a task, with bodies that carry any number in       *)
(* requiredWorkers and payableAmount and deletions sent by any account.    *)
(***************************************************************************)
CountInputs == {-1, 0, 1, 2}
AmountInputs == {-10, 0, 10}

NextPosting ==
  \/ \E h \in Handlers, rw \in CountInputs, pa \in AmountInputs,
        cd \in CompletionDates, u \in TaskUserIds :
          CreateTask(h, rw, pa, cd, u)
  \/ \E h \in Handlers, a \in Actors, t \in TaskIds : DeleteFind(h, a, t)
  \/ \E h \in Handlers : DeleteUserFind(h)
  \/ \E h \in Handlers : DeleteRefund(h)
  \/ \E h \in Handlers : DeleteDelete(h)

SpecPosting == Init /\ [][NextPosting]_vars

(***************************************************************************)
(* POST /api/withdrawals                                                   *)
(***************************************************************************)
WithdrawReq(worker_email, withdrawal_coin, status) ==
  [op |-> "withdraw", worker_email |-> worker_email,
   withdrawal_coin |-> withdrawal_coin, status |-> status]

\* status || 'pending'; an absent status is modelled as ""
StatusOrPending(status) == IF status = "" THEN "pending" ELSE status

RequestWithdrawal(h, worker_email, withdrawal_coin, status) ==
  /\ Idle(h)
  /\ IF Falsy(withdrawal_coin)
     THEN /\ Respond(h, WithdrawReq(worker_email, withdrawal_coin, status),
                     400, NoLoc)
          /\ UNCHANGED <<dbvars, debitsFor>>
     ELSE /\ Len(withdrawals) < MaxWithdrawals
          /\ withdrawals' = Append(withdrawals,
                              [worker_email |-> worker_email,
                               withdrawal_coin |-> withdrawal_coin,
                               status |-> StatusOrPending(status)])
          /\ Respond(h, WithdrawReq(worker_email, withdrawal_coin, status),
                     201, NoLoc)
          /\ UNCHANGED <<users, tasks, taskSeq, payments, approvedCredit,
                         debitsFor>>

(***************************************************************************)
(* POST /api/admin/payment-success                                         *)
(***************************************************************************)
SettleReq(withdrawalId, userId) ==
  [op |-> "settle", withdrawalId |-> withdrawalId, userId |-> userId]

\* payment documents this model may still insert
PaymentsInFlight == Cardinality({h \in Handlers : pc[h] = "settle_insert"})

SettleFind(h, withdrawalId, userId) ==
  /\ Idle(h)
  /\ Len(payments) + PaymentsInFlight < MaxPayments
  /\ IF withdrawalId \notin 1..Len(withdrawals)
     THEN Respond(h, SettleReq(withdrawalId, userId), 404, NoLoc)
     ELSE Await(h, SettleReq(withdrawalId, userId), "settle_insert",
                [op |-> "settle",
                 worker_email |-> withdrawals[withdrawalId].worker_email,
                 withdrawal_coin |-> withdrawals[withdrawalId].withdrawal_coin,
                 status |-> withdrawals[withdrawalId].status,
                 debited |-> 0])
  /\ UNCHANGED <<dbvars, debitsFor>>

\* paymentData; withdrawalId is a history field (the stored document holds
\* no reference to the withdrawal request it settles)
PaymentData(h) ==
  [worker_email |-> loc[h].worker_email,
   withdrawal_coin |-> loc[h].withdrawal_coin,
   status |-> "approved",
   withdrawalId |-> req[h].withdrawalId]

SettlePaymentInsert(h) ==
  /\ pc[h] = "settle_insert"
  /\ payments' = Append(payments, PaymentData(h))
  /\ Await(h, req[h], "settle_user", loc[h])
  /\ UNCHANGED <<users, tasks, taskSeq, withdrawals, approvedCredit, debitsFor>>

SettleUserFind(h) ==
  /\ pc[h] = "settle_user"
  /\ LET user == FindUser(users, "email", req[h].userId) IN
       IF user = 0 THEN Respond(h, req[h], 404, loc[h])
       ELSE IF users[user].coins < loc[h].withdrawal_coin
       THEN Respond(h, req[h], 400, loc[h])
       ELSE Await(h, req[h], "settle_debit", loc[h])
  /\ UNCHANGED <<dbvars, debitsFor>>

SettleDebit(h) ==
  /\ pc[h] = "settle_debit"
  /\ users' = IncCoins(users, "email", req[h].userId, -loc[h].withdrawal_coin)
  /\ debitsFor' = [debitsFor EXCEPT ![req[h].withdrawalId] = @ + 1]
  /\ Await(h, req[h], "settle_status",
           [loc[h] EXCEPT !.debited = loc[h].withdrawal_coin])
  /\ UNCHANGED <<tasks, taskSeq, withdrawals, payments, approvedCredit>>

SetWithdrawalStatus(ws, withdrawalId, st) ==
  IF withdrawalId \in 1..Len(ws)
  THEN [ws EXCEPT ![withdrawalId].status = st]
  ELSE ws

SettleStatus(h) ==
  /\ pc[h] = "settle_status"
  /\ withdrawals' =
       SetWithdrawalStatus(withdrawals, req[h].withdrawalId, "payment done")
  /\ Respond(h, req[h], 200, loc[h])
  /\ UNCHANGED <<users, tasks, taskSeq, payments, approvedCredit, debitsFor>>

NextPayout ==
  \/ \E h \in Handlers, d \in Deductions : DeductFind(h, d[1], d[2])
  \/ \E h \in Handlers : DeductUpdate(h)
  \/ \E h \in Handlers, e \in Emails, c \in WithdrawalCoins,
        st \in BodyStatuses :
          RequestWithdrawal(h, e, c, st)
  \/ \E h \in Handlers, w \in 1..MaxWithdrawals, e \in Emails :
        SettleFind(h, w, e)
  \/ \E h \in Handlers : SettlePaymentInsert(h)
  \/ \E h \in Handlers : SettleUserFind(h)
  \/ \E h \in Handlers : SettleDebit(h)
  \/ \E h \in Handlers : SettleStatus(h)

SpecPayout == Init /\ [][NextPayout]_vars

(***************************************************************************)
(* PATCH /api/tasks/:taskId: one updateOne, then the response.             *)
(***************************************************************************)
\* bodies: <<taskTitle, taskDetail, submissionInfo>>; "" is an empty or
\* absent text
TextInputs == {<<"a", "a", "a">>, <<"b", "a", "b">>, <<"b", "", "a">>}

UpdateReq(taskId, text) ==
  [op |-> "updateTask", taskId |-> taskId, taskTitle |-> text[1],
   taskDetail |-> text[2], submissionInfo |-> text[3]]

FalsyText(x) == x = ""

\* (variant: the update replaces the document's submissions as well)
SetTaskTextAndClear(ts, taskId, text) ==
  IF taskId \in DOMAIN ts
  THEN [ts EXCEPT ![taskId].taskTitle = text[1],
                  ![taskId].taskDetail = text[2],
                  ![taskId].submissionInfo = text[3],
                  ![taskId].submissions = <<>>]
  ELSE ts

\* updateOne({_id}, {$set: {taskTitle, taskDetail, submissionInfo}})
SetTaskText(ts, taskId, text) ==
  IF taskId \in DOMAIN ts
  THEN [ts EXCEPT ![taskId].taskTitle = text[1],
                  ![taskId].taskDetail = text[2],
                  ![taskId].submissionInfo = text[3]]
  ELSE ts

UpdateTask(h, taskId, text) ==
  /\ Idle(h)
  /\ IF FalsyText(text[1]) \/ FalsyText(text[2]) \/ FalsyText(text[3])
     THEN /\ tasks' = tasks
          /\ Respond(h, UpdateReq(taskId, text), 400, NoLoc)
     ELSE /\ tasks' = SetTaskText(tasks, taskId, text)
          /\ Respond(h, UpdateReq(taskId, text),
                     IF tasks' = tasks THEN 404 ELSE 200, NoLoc)
  /\ UNCHANGED <<users, taskSeq, withdrawals, payments, approvedCredit,
                 debitsFor>>

NextEdit ==
  \/ \E h \in Handlers, rw \in RequiredWorkersInputs, pa \in PayableAmounts,
        cd \in CompletionDates, u \in TaskUserIds :
          CreateTask(h, rw, pa, cd, u)
  \/ \E t \in TaskIds, w \in WorkerIds : Submit(t, w)
  \/ \E h \in Handlers, t \in TaskIds, s \in 1..MaxSubs : ApproveUpdate(h, t, s)
  \/ \E h \in Handlers : ApproveFind(h)
  \/ \E h \in Handlers : ApproveCredit(h)
  \/ \E h \in Handlers, t \in TaskIds, x \in TextInputs : UpdateTask(h, t, x)

SpecEdit == Init /\ [][NextEdit]_vars

(***************************************************************************)
(* POST /api/register, on a users collection that starts empty.  The       *)
(* bodies sent carry every required field; a client is identified by the   *)
(* digit n of its email "e<n>" and Firebase uid "f<n>".                    *)
(***************************************************************************)
MinPasswordLength == 8
ValidRoles == {"worker", "buyer", "user"}

Identities == {"1", "2"}
RegisterRoles == {"worker", "buyer", "user", "admin"}
PasswordLengths == {7, 8}

RegisterReq(n, role, passwordLength) ==
  [op |-> "register", email |-> "e" \o n, uid |-> "f" \o n, role |-> role,
   passwordLength |-> passwordLength]

\* the _id insertOne gives the next document of the users collection
FreshId(us) == "o" \o <<"1", "2", "3", "4">>[Len(us) + 1]

\* registrations that have passed the checks and will insert
RegistrationsInFlight ==
  Cardinality({h \in Handlers : pc[h] = "register_insert"})

RegisterFind(h, n, role, passwordLength) ==
  /\ Idle(h)
  /\ LET r == RegisterReq(n, role, passwordLength) IN
       IF passwordLength < MinPasswordLength THEN Respond(h, r, 400, NoLoc)
       ELSE IF role \notin ValidRoles THEN Respond(h, r, 400, NoLoc)
       ELSE IF FindUser(users, "email", r.email) # 0
       THEN Respond(h, r, 400, NoLoc)
       ELSE /\ Len(users) + RegistrationsInFlight < MaxUsers
            /\ Await(h, r, "register_insert", [op |-> "register"])
  /\ UNCHANGED <<dbvars, debitsFor>>

\* bcrypt.hash, then insertOne(newUser)
RegisterInsert(h) ==
  /\ pc[h] = "register_insert"
  /\ users' = Append(users,
                 [_id |-> FreshId(users), uid |-> req[h].uid,
                  email |-> req[h].email, role |-> req[h].role,
                  coins |-> SeedCoins(req[h].role)])
  /\ Respond(h, req[h], 201, loc[h])
  /\ UNCHANGED <<tasks, taskSeq, withdrawals, payments, approvedCredit,
                 debitsFor>>

InitRegister ==
  /\ users = <<>>
  /\ tasks = <<>>
  /\ taskSeq = 0
  /\ withdrawals = <<>>
  /\ payments = <<>>
  /\ pc = [h \in Handlers |-> "idle"]
  /\ req = [h \in Handlers |-> NoReq]
  /\ loc = [h \in Handlers |-> NoLoc]
  /\ out = NoOut
  /\ approvedCredit = [o \in ObjectIdStrings |-> 0]
  /\ debitsFor = [w \in 1..MaxWithdrawals |-> 0]

NextRegister ==
  \/ \E h \in Handlers, n \in Identities, role \in RegisterRoles,
        pl \in PasswordLengths :
          RegisterFind(h, n, role, pl)
  \/ \E h \in Handlers : RegisterInsert(h)

SpecRegister == InitRegister /\ [][NextRegister]_vars

(***************************************************************************)
(* The scenario of the design's test list, request after request: each     *)
(* request is issued once the previous one has been answered.  The buyer   *)
(* is users[1]; three workers submit; the client may or may not call the   *)
(* coin-deduction route for the escrow before it posts the task.           *)
(***************************************************************************)
Scenario == [requiredWorkers |-> 5, payableAmount |-> 10]
ScenarioWorkers == {"o2", "o3", "o4"}

Quiet == \A h \in Handlers : Idle(h)

\* statuses of the submissions of task 1, in order
Statuses ==
  IF 1 \in DOMAIN tasks
  THEN [i \in 1..Len(tasks[1].submissions) |-> tasks[1].submissions[i].status]
  ELSE <<>>

InitScenario ==
  /\ users = <<NewUser("1", "buyer"), NewUser("2", "worker"),
               NewUser("3", "worker"), NewUser("4", "worker")>>
  /\ tasks = <<>>
  /\ taskSeq = 0
  /\ withdrawals = <<>>
  /\ payments = <<>>
  /\ pc = [h \in Handlers |-> "idle"]
  /\ req = [h \in Handlers |-> NoReq]
  /\ loc = [h \in Handlers |-> NoLoc]
  /\ out = NoOut
  /\ approvedCredit = [o \in ObjectIdStrings |-> 0]
  /\ debitsFor = [w \in 1..MaxWithdrawals |-> 0]

ScenarioDeduct(h) ==
  /\ Quiet /\ taskSeq = 0 /\ users[1].coins = BuyerSeed
  /\ DeductFind(h, "f1", Scenario.requiredWorkers * Scenario.payableAmount)

ScenarioCreate(h, completionDate, userId) ==
  /\ Quiet /\ taskSeq = 0
  /\ CreateTask(h, Scenario.requiredWorkers, Scenario.payableAmount,
                completionDate, userId)

ScenarioSubmit(workerId) ==
  /\ Quiet
  /\ \A i \in DOMAIN Statuses : Statuses[i] = "pending"
  /\ SubmitWork(1, workerId)

ScenarioApproveFirst(h) ==
  /\ Quiet /\ Statuses = <<"pending", "pending", "pending">>
  /\ ApproveUpdate(h, 1, 1)

ScenarioApproveSecond(h) ==
  /\ Quiet /\ Statuses = <<"approved", "pending", "pending">>
  /\ ApproveUpdate(h, 1, 2)

ScenarioReject(h) ==
  /\ Quiet /\ Statuses = <<"approved", "approved", "pending">>
  /\ RejectUpdate(h, 1, 3)

ScenarioCancel(h) ==
  /\ Quiet /\ Statuses = <<"approved", "approved", "rejected">>
  /\ DeleteFind(h, "f1", 1)

NextScenario ==
  \/ \E h \in Handlers : ScenarioDeduct(h)
  \/ \E h \in Handlers : DeductUpdate(h)
  \/ \E h \in Handlers, cd \in CompletionDates, u \in TaskUserIds :
        ScenarioCreate(h, cd, u)
  \/ \E w \in ScenarioWorkers : ScenarioSubmit(w)
  \/ \E h \in Handlers : ScenarioApproveFirst(h)
  \/ \E h \in Handlers : ScenarioApproveSecond(h)
  \/ \E h \in Handlers : ApproveFind(h)
  \/ \E h \in Handlers : ApproveCredit(h)
  \/ \E h \in Handlers : ScenarioReject(h)
  \/ \E h \in Handlers : RejectInc(h)
  \/ \E h \in Handlers : ScenarioCancel(h)
  \/ \E h \in Handlers : DeleteUserFind(h)
  \/ \E h \in Handlers : DeleteRefund(h)
  \/ \E h \in Handlers : DeleteDelete(h)

SpecScenario == InitScenario /\ [][NextScenario]_vars

(***************************************************************************)
(* Properties.                                                             *)
(***************************************************************************)
Balance(us, field, val) == us[FindUser(us, field, val)].coins

\* the account a task's userId names, by Firebase uid or by document _id
AccountOf(us, userId) ==
  IF FindUser(us, "uid", userId) # 0 THEN FindUser(us, "uid", userId)
  ELSE FindUser(us, "_id", userId)

PaymentsFor(w) == {i \in 1..Len(payments) : payments[i].withdrawalId = w}

RECURSIVE SumPaid(_, _)
SumPaid(ps, email) ==
  IF ps = <<>> THEN 0
  ELSE (IF Head(ps).worker_email = email THEN Head(ps).withdrawal_coin ELSE 0)
       + SumPaid(Tail(ps), email)

PaidStatuses == {"paid", "payment done"}

\* lifecycle state of a task document (the documents of POST /api/tasks
\* carry no status field)
TaskStatus(task) == IF "status" \in DOMAIN task THEN task.status ELSE "open"

\* C1: every account's coin balance is >= 0 in every reachable state, under
\* any interleaving of the handlers' store calls.
C1_BalancesNonNegative == \A i \in 1..Len(users) : users[i].coins >= 0

\* C2: createTask with escrow E = requiredWorkers x payableAmount either
\* leaves the buyer's balance unchanged, answers InsufficientFunds and
\* creates no task, or debits the buyer by exactly E and creates exactly one
\* task.
C2_CreateTaskEscrow ==
  [][out'.req.op = "createTask" =>
       LET E == out'.req.requiredWorkers * out'.req.payableAmount
           b == AccountOf(users, out'.req.userId)
       IN \/ /\ out'.status = 400
             /\ users' = users
             /\ tasks' = tasks
          \/ /\ users' = [users EXCEPT ![b].coins = @ - E]
             /\ Cardinality(DOMAIN tasks') = Cardinality(DOMAIN tasks) + 1
    ]_vars

\* C3: an approve call on a submission that is already approved is answered
\* with an error (404, "not found or already approved"), ends there, and
\* changes no balance: the worker is credited once, not twice.
C3_ReapproveNoCredit ==
  [][\A h \in Handlers, t \in TaskIds, s \in 1..MaxSubs :
       ( /\ SubmissionMatched(tasks, t, s)
         /\ tasks[t].submissions[s].status = "approved"
         /\ ApproveUpdate(h, t, s) )
       => /\ out'.status = 404
          /\ pc'[h] = "idle"
          /\ users' = users
          /\ approvedCredit' = approvedCredit
          /\ tasks' = tasks
    ]_vars

\* C3 witness: a re-approval has just been refused for a submission whose
\* worker holds the seed plus exactly one payable amount.
C3_Witness ==
  /\ out.req.op = "approve"
  /\ out.status = 404
  /\ SubmissionMatched(tasks, out.req.taskId, out.req.submissionId)
  /\ LET task == tasks[out.req.taskId]
         sub == task.submissions[out.req.submissionId]
     IN /\ sub.status = "approved"
        /\ approvedCredit[sub.workerId] = task.payableAmount
        /\ Balance(users, "_id", sub.workerId)
             = WorkerSeed + task.payableAmount

\* C4: a task deletion that succeeds has credited the owning buyer exactly
\* r * p, for r the task's remaining required workers and p its payable
\* amount.
C4_CancelRefundsRemaining ==
  (out.req.op = "deleteTask" /\ out.status = 200)
    => out.loc.refunded = out.loc.requiredWorkers * out.loc.payableAmount

\* C5: for every withdrawal request, at most one PaymentRecord exists and
\* the worker is debited at most once, whatever settle calls were made.
C5_SettleAtMostOnce ==
  \A w \in 1..Len(withdrawals) :
     /\ Cardinality(PaymentsFor(w)) <= 1
     /\ debitsFor[w] <= 1

\* C6: requestWithdrawal with a coin amount above the worker's balance is
\* answered InsufficientFunds and creates no WithdrawalRequest.
C6_WithdrawalNeedsFunds ==
  [][( /\ out'.req.op = "withdraw"
       /\ FindUser(users, "email", out'.req.worker_email) # 0
       /\ out'.req.withdrawal_coin
            > Balance(users, "email", out'.req.worker_email) )
       => /\ out'.status = 400
          /\ withdrawals' = withdrawals
    ]_vars

\* C7: for every worker, the PaymentRecords' coin amounts sum to no more
\* than the coins ever credited to that worker by approvals.
C7_PaidWithinEarned ==
  \A i \in 1..Len(users) :
     users[i].role = "worker"
       => SumPaid(payments, users[i].email) <= approvedCredit[users[i]._id]

\* C8: the scenario: buyer with 50 coins creates a task (required 5, payable
\* 10) and holds 0; after two approvals the two workers hold 10 more each
\* and 3 slots remain; after one rejection 4 slots remain; after cancelling
\* the buyer holds 4 * 10 = 40.
C8_ScenarioTrace ==
  /\ (Quiet /\ 1 \in DOMAIN tasks) => users[1].coins = 0
  /\ (Quiet /\ Statuses = <<"approved", "approved", "pending">>)
       => /\ \A i \in 1..2 :
               Balance(users, "_id", tasks[1].submissions[i].workerId)
                 = WorkerSeed + Scenario.payableAmount
          /\ tasks[1].requiredWorkers = 3
  /\ (Quiet /\ Statuses = <<"approved", "approved", "rejected">>)
       => tasks[1].requiredWorkers = 4
  /\ (Quiet /\ taskSeq = 1 /\ 1 \notin DOMAIN tasks)
       => users[1].coins = 4 * Scenario.payableAmount

\* C9: a settle call that found the request pending and is answered
\* InsufficientFunds has committed nothing: no PaymentRecord for the
\* request, no debit, and the request is pending or rejected, not paid.
C9_FailedSettleCommitsNothing ==
  (out.req.op = "settle" /\ out.status = 400 /\ out.loc.status = "pending")
    => /\ PaymentsFor(out.req.withdrawalId) = {}
       /\ out.loc.debited = 0
       /\ withdrawals[out.req.withdrawalId].status \in {"pending", "rejected"}

\* C10: a successful settle of a pending request debits the account of the
\* request's worker by the request's coin amount and no other account, has
\* created one PaymentRecord and leaves the request paid.
C10_SettleDebitsOwner ==
  /\ [][\A h \in Handlers : SettleDebit(h) =>
          /\ FindUser(users, "email", loc[h].worker_email) # 0
          /\ users' = [users EXCEPT
                         ![FindUser(users, "email", loc[h].worker_email)].coins
                           = @ - loc[h].withdrawal_coin]
       ]_vars
  /\ []((out.req.op = "settle" /\ out.status = 200
           /\ out.loc.status = "pending")
          => /\ out.loc.debited = out.loc.withdrawal_coin
             /\ PaymentsFor(out.req.withdrawalId) # {}
             /\ withdrawals[out.req.withdrawalId].status \in PaidStatuses)

\* C11: a requestWithdrawal answered with success has created one
\* WithdrawalRequest, in status pending, and changed no balance; and the
\* only step after which a request is paid although it was not before (or
\* did not exist before) is the status update of a settle call.
C11_WithdrawalStartsPending ==
  [][/\ (out'.req.op = "withdraw" /\ out'.status = 201)
          => /\ Len(withdrawals') = Len(withdrawals) + 1
             /\ withdrawals'[Len(withdrawals')].status = "pending"
             /\ users' = users
     /\ \A w \in 1..Len(withdrawals') :
          ( /\ withdrawals'[w].status \in PaidStatuses
            /\ (w \in 1..Len(withdrawals)
                  => withdrawals[w].status \notin PaidStatuses) )
          => \E h \in Handlers : SettleStatus(h)
    ]_vars

\* C12: a registration with a valid role adds exactly one account, with the
\* role asked for and a balance of 10 (worker), 50 (buyer) or 0 (any other
\* role), and touches no other account; a registration whose email is
\* already stored when the handler looks it up is answered 400 and leaves
\* the accounts and their balances as they were.
C12_RegisterSeedsAndRejectsDuplicate ==
  [][\A h \in Handlers :
       /\ RegisterInsert(h)
            => /\ req[h].role \in ValidRoles
               /\ Len(users') = Len(users) + 1
               /\ SubSeq(users', 1, Len(users)) = users
               /\ users'[Len(users')].email = req[h].email
               /\ users'[Len(users')].role = req[h].role
               /\ users'[Len(users')].coins =
                    (IF req[h].role = "worker" THEN 10
                     ELSE IF req[h].role = "buyer" THEN 50 ELSE 0)
               /\ out'.status = 201
       /\ \A n \in Identities, role \in RegisterRoles, pl \in PasswordLengths :
            ( /\ FindUser(users, "email", "e" \o n) # 0
              /\ RegisterFind(h, n, role, pl) )
            => /\ out'.status = 400
               /\ pc'[h] = "idle"
               /\ users' = users
    ]_vars

\* C12 witness: a worker, a buyer or a plain user are registered with their
\* seeds, and a well-formed registration for a stored email has just been
\* refused.
C12_Witness ==
  /\ out.req.op = "register"
  /\ out.status = 400
  /\ out.req.role \in ValidRoles
  /\ out.req.passwordLength >= MinPasswordLength
  /\ FindUser(users, "email", out.req.email) # 0
  /\ \E i, j \in 1..Len(users) :
       /\ users[i].role = "buyer" /\ users[i].coins = 50
       /\ users[j].role = "user" /\ users[j].coins = 0

\* C13: an approve or reject call on a submission that is absent or whose
\* status is not pending (an approved one, a rejected one) is answered with
\* a client error and ends there; the submission's status, the task's slot
\* count and every balance are as before.
C13_ReviewOnlyPending ==
  [][\A h \in Handlers, t \in TaskIds, s \in 1..MaxSubs :
       ( /\ ApproveUpdate(h, t, s) \/ RejectUpdate(h, t, s)
         /\ \/ ~SubmissionMatched(tasks, t, s)
            \/ tasks[t].submissions[s].status # "pending" )
       => /\ out'.status \in 400..499
          /\ pc'[h] = "idle"
          /\ tasks' = tasks
          /\ users' = users
    ]_vars

\* C14: a successful approve call has set the submission to approved,
\* credited the submission's worker exactly the task's payableAmount and no
\* one else, and taken one slot of the task, which is closed when none
\* remains: in the scenario, where the calls follow one another, the task
\* posted for 5 workers holds 5 less the number of approved submissions
\* when an approval has been answered.
C14_ApproveCreditsAndTakesSlot ==
  /\ [][\A h \in Handlers : ApproveCredit(h) =>
          /\ FindUser(users, "_id", loc[h].workerId) # 0
          /\ users' = [users EXCEPT
                         ![FindUser(users, "_id", loc[h].workerId)].coins
                           = @ + loc[h].payableAmount]
       ]_vars
  /\ []((out.req.op = "approve" /\ out.status = 200)
          => LET task == tasks[out.req.taskId] IN
               /\ task.submissions[out.req.submissionId].status = "approved"
               /\ task.requiredWorkers =
                    Scenario.requiredWorkers
                      - Cardinality({i \in DOMAIN Statuses :
                                       Statuses[i] = "approved"})
               /\ task.requiredWorkers = 0 => TaskStatus(task) = "closed")

\* C15: a reject call that is accepted sets the submission to rejected
\* without touching the slot count, and its final step adds exactly one to
\* the task's requiredWorkers (when the task is still stored) and answers
\* 200; no step of the call changes any account balance.
C15_RejectReopensSlot ==
  [][\A h \in Handlers :
       /\ \A t \in TaskIds, s \in 1..MaxSubs :
            ( /\ RejectUpdate(h, t, s)
              /\ SubmissionModified(tasks, t, s, "rejected") )
            => /\ tasks' = [tasks EXCEPT
                              ![t].submissions[s].status = "rejected"]
               /\ pc'[h] = "reject_inc"
               /\ users' = users
       /\ RejectInc(h)
            => /\ out'.status = 200
               /\ users' = users
               /\ req[h].taskId \in DOMAIN tasks
                    => tasks' = [tasks EXCEPT
                                   ![req[h].taskId].requiredWorkers = @ + 1]
    ]_vars

\* C15 witness: a rejection has just been answered 200; the submission is
\* rejected, the task holds one slot more than it was posted with, and no
\* account has moved from its seed.
C15_Witness ==
  /\ out.req.op = "reject"
  /\ out.status = 200
  /\ SubmissionMatched(tasks, out.req.taskId, out.req.submissionId)
  /\ LET task == tasks[out.req.taskId] IN
       /\ task.submissions[out.req.submissionId].status = "rejected"
       /\ task.requiredWorkers = task.originalRequired + 1
  /\ \A i \in 1..Len(users) : users[i].coins = SeedCoins(users[i].role)

\* C16: the requiredWorkers of a task posted with a positive count stays
\* between 0 and that count, whatever approvals and rejections interleave.
C16_SlotsWithinOriginal ==
  \A t \in DOMAIN tasks :
     tasks[t].originalRequired > 0
       => /\ tasks[t].requiredWorkers >= 0
          /\ tasks[t].requiredWorkers <= tasks[t].originalRequired

\* C17: a task deletion sent by anyone but the task's owner, or aimed at a
\* closed task, is answered with a client error at once and changes neither
\* the task nor any balance.
C17_CancelOnlyByOwner ==
  [][\A h \in Handlers, a \in Actors, t \in TaskIds :
       ( /\ DeleteFind(h, a, t)
         /\ t \in DOMAIN tasks
         /\ \/ AccountOf(users, a) # AccountOf(users, tasks[t].userId)
            \/ TaskStatus(tasks[t]) = "closed" )
       => /\ out'.status \in 400..499
          /\ pc'[h] = "idle"
          /\ tasks' = tasks
          /\ users' = users
    ]_vars

\* C18: a createTask request whose requiredWorkers or payableAmount is zero
\* or negative is answered with a validation error, stores no task and
\* changes no balance.
C18_CreateTaskNeedsPositive ==
  [][( /\ out'.req.op = "createTask"
       /\ \/ out'.req.requiredWorkers <= 0
          \/ out'.req.payableAmount <= 0 )
       => /\ out'.status \in 400..499
          /\ tasks' = tasks
          /\ taskSeq' = taskSeq
          /\ users' = users
    ]_vars

\* C19: a debit of a stored account is refused with a client error, and
\* changes nothing, when its amount is not positive or exceeds the balance
\* the handler reads; the update of a debit that was let through lowers
\* that balance by exactly the amount; and no step of a debit raises any
\* balance.
C19_DebitOnlyDecreases ==
  [][\A h \in Handlers :
       /\ \A d \in DebitInputs :
            ( /\ DeductFind(h, d[1], d[2])
              /\ FindUser(users, "uid", d[1]) # 0
              /\ \/ d[2] <= 0
                 \/ Balance(users, "uid", d[1]) < d[2] )
            => /\ out'.status \in 400..499
               /\ pc'[h] = "idle"
               /\ users' = users
       /\ DeductUpdate(h)
            => /\ users' = [users EXCEPT
                              ![FindUser(users, "uid", req[h].userId)].coins
                                = @ - req[h].totalCost]
               /\ \A i \in 1..Len(users) : users'[i].coins <= users[i].coins
    ]_vars

\* C20: every stored WithdrawalRequest has status pending, approved, paid
\* or rejected, whatever requests and settle calls were made and whatever
\* their bodies held.
C20_WithdrawalStatusClosed ==
  \A w \in 1..Len(withdrawals) :
     withdrawals[w].status \in {"pending", "approved", "paid", "rejected"}

\* coins credited by approvals, over all workers; the model stores one task
\* in a run, so these are the credits of that task
RECURSIVE SumCredit(_)
SumCredit(ids) ==
  IF ids = {} THEN 0
  ELSE LET o == CHOOSE x \in ids : TRUE
       IN approvedCredit[o] + SumCredit(ids \ {o})

\* the escrow fixed when the task was posted
Escrow(task) == task.originalRequired * task.payableAmount

\* C21: for every task, the coins credited to workers by approvals of the
\* task never exceed its escrow requiredWorkers x payableAmount as posted,
\* and a refund on deletion never brings credits plus refund above it.
C21_NoCoinsMinted ==
  /\ [](\A t \in DOMAIN tasks :
          SumCredit(ObjectIdStrings) <= Escrow(tasks[t]))
  /\ [][\A h \in Handlers :
          (DeleteRefund(h) /\ req[h].taskId \in DOMAIN tasks)
            => SumCredit(ObjectIdStrings)
                 + (users'[AccountOf(users, loc[h].userId)].coins
                      - users[AccountOf(users, loc[h].userId)].coins)
                 <= Escrow(tasks[req[h].taskId])
       ]_vars

\* C22: no two stored accounts have the same email, whatever registration
\* requests interleave.
C22_EmailsUnique ==
  \A i, j \in 1..Len(users) : users[i].email = users[j].email => i = j

\* the part of a task document a task update must leave alone
TaskFrame(task) ==
  [requiredWorkers |-> task.requiredWorkers,
   payableAmount |-> task.payableAmount,
   userId |-> task.userId,
   completionDate |-> task.completionDate,
   submissions |-> task.submissions]

\* C23: a task update, answered with success or with an error, stores and
\* removes no task, leaves every task's requiredWorkers, payableAmount,
\* owner and submissions as they were, and changes no account balance.
C23_UpdateTouchesTextOnly ==
  [][\A h \in Handlers, t \in TaskIds, x \in TextInputs :
       UpdateTask(h, t, x)
         => /\ DOMAIN tasks' = DOMAIN tasks
            /\ \A k \in DOMAIN tasks :
                 TaskFrame(tasks'[k]) = TaskFrame(tasks[k])
            /\ users' = users
            /\ out'.status \in {200, 400, 404}
    ]_vars

\* C23 witness: an update has just been answered 200 for a task that has a
\* submission already approved and paid; the task carries the new texts.
C23_Witness ==
  /\ out.req.op = "updateTask"
  /\ out.status = 200
  /\ out.req.taskId \in DOMAIN tasks
  /\ LET task == tasks[out.req.taskId] IN
       /\ task.taskTitle = "b"
       /\ task.submissionInfo = "b"
       /\ \E i \in 1..Len(task.submissions) :
            /\ task.submissions[i].status = "approved"
            /\ approvedCredit[task.submissions[i].workerId]
                 = task.payableAmount

=============================================================================
